---- MODULE Spec2Model ----
(***************************************************************************)
(* Model of src/request_fixture.py: the fixtures and tests of the file,    *)
(* run one test item at a time (set-up of the requested fixture, the test  *)
(* body, the finalizers, the report).                                      *)
(*                                                                         *)
(* Python values: a dict is a function with a string domain, a list is a   *)
(* sequence, None is the string "None".  Names that the code inspects by   *)
(* character ("test_" in ...) are sequences of one-character strings;      *)
(* a node name is a sequence of tokens (function name, "[", id, "]").      *)
(***************************************************************************)
EXTENDS Integers, Sequences, FiniteSets, TLC

VARIABLES
    collected,  \* the test functions selected for the session, in order
    module,     \* request.module.__name__ of this file, as characters
    queue,      \* the test items still to run
    cur,        \* the item being run (NoItem between items)
    pc,         \* position in the fixture / test body / teardown
    node,       \* request.node of the item: [name, markers]
    reqstack,   \* request contexts of the fixtures being set up
    locals,     \* local variables of the fixture being set up
    result,     \* value of the fixture the test requested
    heap,       \* the resource dicts created by managed_resource
    finalizers, \* callbacks registered with request.addfinalizer
    invoked,    \* finalizers invoked for the current item, in order
    observed,   \* scenario["name"] seen by each test_parameterized_fixture
    failedAt    \* source line of the assertion that failed (0: none)

vars ==
    << collected, module, queue, cur, pc, node, reqstack, locals, result,
       heap, finalizers, invoked, observed, failedAt >>

----------------------------------------------------------------------------
(* Bounds *)

MaxSel ==
    2

MaxDepth ==
    2

MaxMarks ==
    2

----------------------------------------------------------------------------
(* Python helpers *)

None ==
    "None"

EmptyDict ==
    << >>

SetItem(d, k, v) ==
    (k :> v) @@ d

\* {**a, **b}: the later entries win
DictMerge(a, b) ==
    b @@ a

Contains(sub, s) ==
    \E i \in 1..(Len(s) - Len(sub) + 1) : SubSeq(s, i, i + Len(sub) - 1) = sub

StartsWith(s, prefix) ==
    /\ Len(prefix) <= Len(s)
    /\ SubSeq(s, 1, Len(prefix)) = prefix

SeqUpTo(S, n) ==
    UNION { [1..k -> S] : k \in 0..n }

Range(s) ==
    { s[i] : i \in 1..Len(s) }

----------------------------------------------------------------------------
(* The file: its module name, its tests, its fixtures *)

\* request.module.__name__: the file is request_fixture.py, imported either as
\* a top-level module or as a module of the package of its directory, src
ModuleNames ==
    { << "r", "e", "q", "u", "e", "s", "t", "_", "f", "i", "x", "t", "u", "r", "e" >>,
      << "s", "r", "c", ".", "r", "e", "q", "u", "e", "s", "t", "_", "f", "i", "x", "t", "u", "r", "e" >> }

TestPrefix ==
    << "t", "e", "s", "t", "_" >>

TestFunctions ==
    { "test_request_methods", "test_parameterized_fixture", "test_getfixturevalue",
      "test_with_mock_data", "test_with_real_data", "test_with_default_data",
      "test_managed_resource" }

\* the fixture named in the signature of each test function
FixtureOf(test) ==
    CASE test = "test_request_methods" -> "demonstrate_request_methods"
      [] test = "test_parameterized_fixture" -> "scenario"
      [] test = "test_getfixturevalue" -> "advanced_fixture"
      [] test \in { "test_with_mock_data", "test_with_real_data",
                    "test_with_default_data", "any_test" } -> "data_source"
      [] test = "test_managed_resource" -> "managed_resource"


\* a parameter list that repeats a value
ScenarioParams_Repeat ==
    << "scenario1", "scenario2", "scenario2" >>

\* @pytest.fixture(params=[...]) of scenario
ScenarioParams ==
    << "scenario1", "scenario2", "scenario3" >>

\* no fixture of the file declares a scope: each has the default one
FixtureScope(fixture) ==
    "function"

Scopes ==
    { "function", "class", "module", "session" }

\* @pytest.mark decorators of each test function
Decorators(test) ==
    CASE test = "test_with_mock_data" -> << "mock_data" >>
      [] test = "test_with_real_data" -> << "real_data" >>
      [] OTHER -> << >>

\* markers from the node to its ancestors: the function's own, then the
\* module's (the file sets no pytestmark)
DeclaredMarkers(test) ==
    << Decorators(test), << >> >>

NoItem ==
    [ test |-> "none", param |-> None ]

\* one item per test function, one per parameter for a test whose fixture is
\* parameterized
ItemsOf(test) ==
    IF FixtureOf(test) = "scenario"
    THEN [ i \in 1..Len(ScenarioParams) |-> [ test |-> test, param |-> ScenarioParams[i] ] ]
    ELSE << [ test |-> test, param |-> None ] >>

RECURSIVE Collect(_)
Collect(sel) ==
    IF sel = << >> THEN << >> ELSE ItemsOf(Head(sel)) \o Collect(Tail(sel))

NodeName(item) ==
    IF item.param = None
    THEN << item.test >>
    ELSE << item.test, "[", item.param, "]" >>

\* the request context handed to a fixture
RequestFor(fixture, item) ==
    IF fixture = "scenario"
    THEN [ fixturename |-> fixture, scope |-> FixtureScope(fixture), param |-> item.param ]
    ELSE [ fixturename |-> fixture, scope |-> FixtureScope(fixture) ]

FirstStep(fixture) ==
    CASE fixture = "demonstrate_request_methods" -> "drm_read"
      [] fixture = "scenario" -> "scenario"
      [] fixture = "advanced_fixture" -> "advanced_fixture"
      [] fixture = "data_source" -> "data_source"
      [] fixture = "managed_resource" -> "managed_resource"


\* a lookup that reads the node's own markers only
get_closest_marker_Own(chain, name) ==
    IF chain # << >> /\ name \in Range(Head(chain)) THEN name ELSE None

\* request.node.get_closest_marker(name): the first marker of that name, the
\* node's own markers first, then each ancestor's
RECURSIVE get_closest_marker(_, _)
get_closest_marker(chain, name) ==
    IF chain = << >> THEN None
    ELSE IF name \in Range(Head(chain)) THEN name
    ELSE get_closest_marker(Tail(chain), name)

\* a marker object is true, None is false
Truthy(m) ==
    m # None


\* data_source with the two marker tests in the other order
data_source_value_RealFirst(chain) ==
    IF Truthy(get_closest_marker(chain, "real_data"))
    THEN [ type |-> "real", data |-> << 10, 20, 30, 40, 50 >> ]
    ELSE IF Truthy(get_closest_marker(chain, "mock_data"))
    THEN [ type |-> "mock", data |-> << 1, 2, 3, 4, 5 >> ]
    ELSE [ type |-> "default", data |-> << 0, 0, 0 >> ]

\* the three returns of data_source
data_source_value(chain) ==
    IF Truthy(get_closest_marker(chain, "mock_data"))
    THEN [ type |-> "mock", data |-> << 1, 2, 3, 4, 5 >> ]
    ELSE IF Truthy(get_closest_marker(chain, "real_data"))
    THEN [ type |-> "real", data |-> << 10, 20, 30, 40, 50 >> ]
    ELSE [ type |-> "default", data |-> << 0, 0, 0 >> ]

fixture_user_value ==
    [ username |-> "testuser", id |-> 123 ]


\* advanced_fixture with an added field that is also a field of the user
advanced_fixture_value_Clash(user, request) ==
    DictMerge(user, [ id |-> 0, is_admin |-> FALSE, accessed_by |-> request.fixturename ])

\* the dict advanced_fixture returns
advanced_fixture_value(user, request) ==
    DictMerge(user, [ is_admin |-> FALSE, accessed_by |-> request.fixturename ])

\* the dict scenario returns
scenario_value(request, n) ==
    [ name |-> request.param, fixture_name |-> request.fixturename, test_name |-> n.name ]


\* demonstrate_request_methods reporting the test's name as the fixture's
drm_value_TestName(l) ==
    [ fixture_name |-> l["test_func_name"],
      fixture_scope |-> l["fixture_scope"],
      test_func_name |-> l["test_func_name"],
      test_module_name |-> l["test_module_name"],
      test_node_name |-> l["test_node_name"] ]

\* the dict demonstrate_request_methods returns
drm_value(l) ==
    [ fixture_name |-> l["fixture_name"],
      fixture_scope |-> l["fixture_scope"],
      test_func_name |-> l["test_func_name"],
      test_module_name |-> l["test_module_name"],
      test_node_name |-> l["test_node_name"] ]

\* the outcomes of request.getfixturevalue('tmp_path'): the value, or one of
\* the errors the lookup raises (the fixture is unknown, its set-up fails)
LookupOutcomes ==
    { "ok", "FixtureLookupError", "OSError" }

\* the base classes of each exception class, itself included
Bases(exc) ==
    CASE exc = "FixtureLookupError" ->
             { "FixtureLookupError", "LookupError", "Exception", "BaseException" }
      [] exc = "OSError" -> { "OSError", "Exception", "BaseException" }


\* except KeyError:
Handles_KeyError(exc) ==
    "KeyError" \in Bases(exc)

\* except Exception:
Handles(exc) ==
    "Exception" \in Bases(exc)

TmpPath ==
    "tmp_path0"

\* resource = {"name": "test_resource", "status": "active"}
NewResource ==
    [ name |-> "test_resource", status |-> "active" ]


\* a test body that writes the status field
BodyWrite_Status(r) ==
    SetItem(r, "status", "test data")

\* managed_resource["data"] = "test data"
BodyWrite(r) ==
    SetItem(r, "data", "test data")


\* a teardown that leaves the status as it is
teardown_Noop(r) ==
    r

\* resource["status"] = "inactive"
teardown(r) ==
    SetItem(r, "status", "inactive")

----------------------------------------------------------------------------
(* The assertions of the test bodies: << line, holds >> in source order *)

\* the line of the first assertion that fails, 0 when all hold
FirstFailure(checks) ==
    IF \E i \in 1..Len(checks) : ~checks[i][2]
    THEN checks[CHOOSE i \in 1..Len(checks) :
                    /\ ~checks[i][2]
                    /\ \A j \in 1..(i - 1) : checks[j][2]][1]
    ELSE 0

\* the list of line 147
ExpectedScenarios ==
    { "scenario1", "scenario2", "scenario3" }

test_request_methods_asserts(r) ==
    << << 127, r["fixture_name"] = "demonstrate_request_methods" >>,
       << 128, r["fixture_scope"] \in Scopes >>,
       << 129, r["test_func_name"] = "test_request_methods" >>,
       << 130, Contains(TestPrefix, r["test_module_name"]) >>,
       << 131, r["test_node_name"] = << "test_request_methods" >> >> >>

test_parameterized_fixture_asserts(r) ==
    << << 147, r["name"] \in ExpectedScenarios >>,
       << 148, r["fixture_name"] = "scenario" >>,
       << 149, StartsWith(r["test_name"], << "test_parameterized_fixture" >>) >> >>

test_getfixturevalue_asserts(r) ==
    << << 175, r["username"] = "testuser" >>,
       << 176, r["id"] = 123 >>,
       << 177, r["is_admin"] = FALSE >>,
       << 178, r["accessed_by"] = "advanced_fixture" >> >>

test_with_data_asserts(test, r) ==
    CASE test = "test_with_mock_data" ->
             << << 203, r["type"] = "mock" >>, << 204, r["data"] = << 1, 2, 3, 4, 5 >> >> >>
      [] test = "test_with_real_data" ->
             << << 210, r["type"] = "real" >>, << 211, r["data"] = << 10, 20, 30, 40, 50 >> >> >>
      [] test = "test_with_default_data" ->
             << << 216, r["type"] = "default" >>, << 217, r["data"] = << 0, 0, 0 >> >> >>

----------------------------------------------------------------------------
(* The session *)

Init ==
    /\ collected \in SeqUpTo(TestFunctions, MaxSel)
    /\ module \in ModuleNames
    /\ queue = Collect(collected)
    /\ cur = NoItem
    /\ pc = "idle"
    /\ node = [ name |-> << >>, markers |-> << >> ]
    /\ reqstack = << >>
    /\ locals = EmptyDict
    /\ result = EmptyDict
    /\ heap = << >>
    /\ finalizers = << >>
    /\ invoked = << >>
    /\ observed = << >>
    /\ failedAt = 0

\* the next item starts: its node is created and its fixture is called with a
\* request context of its own
StartTest ==
    /\ pc = "idle"
    /\ queue # << >>
    /\ cur' = Head(queue)
    /\ queue' = Tail(queue)
    /\ node' = [ name |-> NodeName(Head(queue)),
                 markers |-> DeclaredMarkers(Head(queue).test) ]
    /\ reqstack' = << RequestFor(FixtureOf(Head(queue).test), Head(queue)) >>
    /\ pc' = FirstStep(FixtureOf(Head(queue).test))
    /\ locals' = EmptyDict
    /\ result' = EmptyDict
    /\ finalizers' = << >>
    /\ invoked' = << >>
    /\ failedAt' = 0
    /\ UNCHANGED << collected, module, heap, observed >>

\* the request of the fixture that is running
Request ==
    reqstack[Len(reqstack)]

\* a fixture returns: its request context ends
Return ==
    SubSeq(reqstack, 1, Len(reqstack) - 1)

----------------------------------------------------------------------------
(* demonstrate_request_methods *)

\* lines 18-70: the attribute reads
drm_read ==
    /\ pc = "drm_read"
    /\ locals' =
         LET l == [ fixture_name |-> Request.fixturename,
                    fixture_scope |-> Request.scope,
                    test_func_name |-> cur.test,
                    test_module_name |-> module,
                    test_node_name |-> node.name ]
         IN  IF "param" \in DOMAIN Request
             THEN SetItem(l, "param_value", Request.param)
             ELSE l
    /\ pc' = "drm_addfinalizer"
    /\ UNCHANGED << collected, module, queue, cur, node, reqstack, result, heap,
                    finalizers, invoked, observed, failedAt >>

\* lines 75-78: request.addfinalizer(cleanup_function)
drm_addfinalizer ==
    /\ pc = "drm_addfinalizer"
    /\ finalizers' = Append(finalizers, [ fn |-> "cleanup_function", res |-> 0 ])
    /\ pc' = "drm_add_marker"
    /\ UNCHANGED << collected, module, queue, cur, node, reqstack, locals, result,
                    heap, invoked, observed, failedAt >>

\* line 81: request.node.add_marker(pytest.mark.xfail(...))
drm_add_marker ==
    /\ pc = "drm_add_marker"
    /\ node' = [ node EXCEPT !.markers[1] = Append(@, "xfail") ]
    /\ pc' = "drm_getfixturevalue"
    /\ UNCHANGED << collected, module, queue, cur, reqstack, locals, result, heap,
                    finalizers, invoked, observed, failedAt >>

\* lines 85-86: the call request.getfixturevalue('tmp_path') returns the
\* value, which is bound to tmp_path_value, or raises
drm_getfixturevalue ==
    /\ pc = "drm_getfixturevalue"
    /\ \E out \in LookupOutcomes :
         locals' = IF out = "ok"
                   THEN SetItem(SetItem(locals, "raised", None), "tmp_path_value", TmpPath)
                   ELSE SetItem(locals, "raised", out)
    /\ pc' = "drm_except"
    /\ UNCHANGED << collected, module, queue, cur, node, reqstack, result, heap,
                    finalizers, invoked, observed, failedAt >>

\* lines 87-89: except Exception: tmp_path_value = None (an exception the
\* handler does not catch leaves the fixture: the set-up fails at line 86 and
\* the item goes to its teardown)
drm_except ==
    /\ pc = "drm_except"
    /\ IF locals["raised"] = None
       THEN /\ pc' = "drm_return"
            /\ UNCHANGED << locals, reqstack, failedAt >>
       ELSE IF Handles(locals["raised"])
       THEN /\ locals' = SetItem(locals, "tmp_path_value", None)
            /\ pc' = "drm_return"
            /\ UNCHANGED << reqstack, failedAt >>
       ELSE /\ pc' = "teardown"
            /\ failedAt' = 86
            /\ reqstack' = Return
            /\ UNCHANGED locals
    /\ UNCHANGED << collected, module, queue, cur, node, result, heap, finalizers,
                    invoked, observed >>

\* lines 94-119: the marker and callspec reads, the returned dict
drm_return ==
    /\ pc = "drm_return"
    /\ locals' =
         SetItem(SetItem(locals, "skip_marker", get_closest_marker(node.markers, "skip")),
                 "call_spec", cur.param)
    /\ result' = drm_value(locals)
    /\ reqstack' = Return
    /\ pc' = "call"
    /\ UNCHANGED << collected, module, queue, cur, node, heap, finalizers, invoked,
                    observed, failedAt >>

\* lines 122-131
test_request_methods ==
    /\ pc = "call"
    /\ cur.test = "test_request_methods"
    /\ failedAt' = FirstFailure(test_request_methods_asserts(result))
    /\ pc' = "teardown"
    /\ UNCHANGED << collected, module, queue, cur, node, reqstack, locals, result,
                    heap, finalizers, invoked, observed >>

----------------------------------------------------------------------------
(* scenario *)

\* lines 135-142
scenario ==
    /\ pc = "scenario"
    /\ result' = scenario_value(Request, node)
    /\ reqstack' = Return
    /\ pc' = "call"
    /\ UNCHANGED << collected, module, queue, cur, node, locals, heap, finalizers,
                    invoked, observed, failedAt >>

\* lines 145-149
test_parameterized_fixture ==
    /\ pc = "call"
    /\ cur.test = "test_parameterized_fixture"
    /\ observed' = Append(observed, result["name"])
    /\ failedAt' = FirstFailure(test_parameterized_fixture_asserts(result))
    /\ pc' = "teardown"
    /\ UNCHANGED << collected, module, queue, cur, node, reqstack, locals, result,
                    heap, finalizers, invoked >>

----------------------------------------------------------------------------
(* fixture_user, advanced_fixture *)

\* line 163: request.getfixturevalue("fixture_user") calls the fixture with a
\* request context of its own
advanced_fixture ==
    /\ pc = "advanced_fixture"
    /\ reqstack' = Append(reqstack, RequestFor("fixture_user", cur))
    /\ pc' = "fixture_user"
    /\ UNCHANGED << collected, module, queue, cur, node, locals, result, heap,
                    finalizers, invoked, observed, failedAt >>

\* lines 153-156, the value bound to user at line 163
fixture_user ==
    /\ pc = "fixture_user"
    /\ locals' = SetItem(locals, "user", fixture_user_value)
    /\ reqstack' = Return
    /\ pc' = "advanced_fixture_return"
    /\ UNCHANGED << collected, module, queue, cur, node, result, heap, finalizers,
                    invoked, observed, failedAt >>

\* lines 166-170
advanced_fixture_return ==
    /\ pc = "advanced_fixture_return"
    /\ result' = advanced_fixture_value(locals["user"], Request)
    /\ reqstack' = Return
    /\ pc' = "call"
    /\ UNCHANGED << collected, module, queue, cur, node, locals, heap, finalizers,
                    invoked, observed, failedAt >>

\* lines 173-178
test_getfixturevalue ==
    /\ pc = "call"
    /\ cur.test = "test_getfixturevalue"
    /\ failedAt' = FirstFailure(test_getfixturevalue_asserts(result))
    /\ pc' = "teardown"
    /\ UNCHANGED << collected, module, queue, cur, node, reqstack, locals, result,
                    heap, finalizers, invoked, observed >>

----------------------------------------------------------------------------
(* data_source *)

\* lines 182-197
data_source ==
    /\ pc = "data_source"
    /\ locals' = [ mock_marker |-> get_closest_marker(node.markers, "mock_data") ]
    /\ result' = data_source_value(node.markers)
    /\ reqstack' = Return
    /\ pc' = "call"
    /\ UNCHANGED << collected, module, queue, cur, node, heap, finalizers, invoked,
                    observed, failedAt >>

\* lines 200-217
test_with_data ==
    /\ pc = "call"
    /\ cur.test \in { "test_with_mock_data", "test_with_real_data",
                      "test_with_default_data" }
    /\ failedAt' = FirstFailure(test_with_data_asserts(cur.test, result))
    /\ pc' = "teardown"
    /\ UNCHANGED << collected, module, queue, cur, node, reqstack, locals, result,
                    heap, finalizers, invoked, observed >>

----------------------------------------------------------------------------
(* managed_resource *)

\* lines 225-226: the resource is created
managed_resource ==
    /\ pc = "managed_resource"
    /\ heap' = Append(heap, NewResource)
    /\ locals' = [ resource |-> Len(heap) + 1 ]
    /\ pc' = "managed_resource_register"
    /\ UNCHANGED << collected, module, queue, cur, node, reqstack, result,
                    finalizers, invoked, observed, failedAt >>

\* lines 229-236: request.addfinalizer(teardown); return resource
managed_resource_register ==
    /\ pc = "managed_resource_register"
    /\ finalizers' = Append(finalizers, [ fn |-> "teardown", res |-> locals["resource"] ])
    /\ result' = [ ref |-> locals["resource"] ]
    /\ reqstack' = Return
    /\ pc' = "call"
    /\ UNCHANGED << collected, module, queue, cur, node, locals, heap, invoked,
                    observed, failedAt >>

\* line 241: assert managed_resource["status"] == "active"
test_managed_resource ==
    /\ pc = "call"
    /\ cur.test = "test_managed_resource"
    /\ IF heap[result["ref"]]["status"] = "active"
       THEN /\ pc' = "test_managed_resource_write"
            /\ UNCHANGED failedAt
       ELSE /\ pc' = "teardown"
            /\ failedAt' = 241
    /\ UNCHANGED << collected, module, queue, cur, node, reqstack, locals, result,
                    heap, finalizers, invoked, observed >>

\* line 243: managed_resource["data"] = "test data"
test_managed_resource_write ==
    /\ pc = "test_managed_resource_write"
    /\ heap' = [ heap EXCEPT ![result["ref"]] = BodyWrite(@) ]
    /\ pc' = "test_managed_resource_check"
    /\ UNCHANGED << collected, module, queue, cur, node, reqstack, locals, result,
                    finalizers, invoked, observed, failedAt >>

\* line 244: assert "data" in managed_resource
test_managed_resource_check ==
    /\ pc = "test_managed_resource_check"
    /\ failedAt' = IF "data" \in DOMAIN heap[result["ref"]] THEN 0 ELSE 244
    /\ pc' = "teardown"
    /\ UNCHANGED << collected, module, queue, cur, node, reqstack, locals, result,
                    heap, finalizers, invoked, observed >>

----------------------------------------------------------------------------
(* Teardown of the item *)

\* the callback registered last is called and leaves the queue; teardown
\* (lines 229-231) releases its resource, cleanup_function (75-76) only prints
RunFinalizer ==
    /\ pc = "teardown"
    /\ finalizers # << >>
    /\ LET f == finalizers[Len(finalizers)]
       IN  /\ heap' = IF f.fn = "teardown"
                      THEN [ heap EXCEPT ![f.res] = teardown(@) ]
                      ELSE heap
           /\ invoked' = Append(invoked, f)
    /\ finalizers' = SubSeq(finalizers, 1, Len(finalizers) - 1)
    /\ UNCHANGED << collected, module, queue, cur, pc, node, reqstack, locals,
                    result, observed, failedAt >>

\* every finalizer has run: the item is over
FinishTest ==
    /\ pc = "teardown"
    /\ finalizers = << >>
    /\ cur' = NoItem
    /\ pc' = "idle"
    /\ node' = [ name |-> << >>, markers |-> << >> ]
    /\ reqstack' = << >>
    /\ locals' = EmptyDict
    /\ result' = EmptyDict
    /\ UNCHANGED << collected, module, queue, heap, finalizers, invoked, observed,
                    failedAt >>

Next ==
    \/ StartTest
    \/ drm_read
    \/ drm_addfinalizer
    \/ drm_add_marker
    \/ drm_getfixturevalue
    \/ drm_except
    \/ drm_return
    \/ test_request_methods
    \/ scenario
    \/ test_parameterized_fixture
    \/ advanced_fixture
    \/ fixture_user
    \/ advanced_fixture_return
    \/ test_getfixturevalue
    \/ data_source
    \/ test_with_data
    \/ managed_resource
    \/ managed_resource_register
    \/ test_managed_resource
    \/ test_managed_resource_write
    \/ test_managed_resource_check
    \/ RunFinalizer
    \/ FinishTest

Spec ==
    Init /\ [][Next]_vars

\* the runner runs every item to its end
FairSpec ==
    Init /\ [][Next]_vars /\ WF_vars(Next)

----------------------------------------------------------------------------
(* data_source under any markers: a test that requests data_source, with   *)
(* any markers on it and on its ancestors                                  *)

MarkerNames ==
    { "mock_data", "real_data", "skip" }

MarkerChains ==
    UNION { [1..d -> SeqUpTo(MarkerNames, MaxMarks)] : d \in 1..MaxDepth }

AnyItem ==
    [ test |-> "any_test", param |-> None ]

InitMarkers ==
    /\ collected = << >>
    /\ module \in ModuleNames
    /\ queue = << >>
    /\ cur = AnyItem
    /\ pc = "data_source"
    /\ \E chain \in MarkerChains : node = [ name |-> NodeName(AnyItem), markers |-> chain ]
    /\ reqstack = << RequestFor("data_source", AnyItem) >>
    /\ locals = EmptyDict
    /\ result = EmptyDict
    /\ heap = << >>
    /\ finalizers = << >>
    /\ invoked = << >>
    /\ observed = << >>
    /\ failedAt = 0

NextMarkers ==
    data_source

SpecMarkers ==
    InitMarkers /\ [][NextMarkers]_vars

----------------------------------------------------------------------------
(* Properties *)

ManagedTest ==
    cur.test = "test_managed_resource"

\* from the return of managed_resource to the end of the test body, and until
\* the first finalizer is called
InManagedBody ==
    /\ ManagedTest
    /\ \/ pc \in { "call", "test_managed_resource_write", "test_managed_resource_check" }
       \/ pc = "teardown" /\ invoked = << >> /\ finalizers # << >>

\* C1: from the return of managed_resource to the end of the body of
\* test_managed_resource the resource's status is "active", whatever the body
\* writes to its other keys, and teardown has not been called
C1_ActiveDuringBody ==
    InManagedBody =>
        /\ heap[result["ref"]]["status"] = "active"
        /\ \A i \in 1..Len(invoked) : invoked[i].fn # "teardown"

C1_Witness ==
    /\ InManagedBody
    /\ pc = "teardown"
    /\ "data" \in DOMAIN heap[result["ref"]]
    /\ heap[result["ref"]]["status"] = "active"

Present(chain, name) ==
    \E i \in 1..Len(chain) : name \in Range(chain[i])

\* the distance of the nearest marker of that name (Len(chain) + 1: none)
Distance(chain, name) ==
    IF Present(chain, name)
    THEN CHOOSE i \in 1..Len(chain) :
             /\ name \in Range(chain[i])
             /\ \A j \in 1..(i - 1) : name \notin Range(chain[j])
    ELSE Len(chain) + 1

MockData ==
    [ type |-> "mock", data |-> << 1, 2, 3, 4, 5 >> ]

RealData ==
    [ type |-> "real", data |-> << 10, 20, 30, 40, 50 >> ]

DefaultData ==
    [ type |-> "default", data |-> << 0, 0, 0 >> ]

DataSourceReturned ==
    /\ FixtureOf(cur.test) = "data_source"
    /\ pc = "call"

\* C3 as stated: the mock set when mock_data is the nearer of the two markers,
\* the real set when real_data is the nearer, the default set when neither is
\* on the node or its ancestors
C3_NearestDecides ==
    DataSourceReturned =>
        LET m == Distance(node.markers, "mock_data")
            r == Distance(node.markers, "real_data")
        IN  /\ m < r => result = MockData
            /\ r < m => result = RealData
            /\ (~Present(node.markers, "mock_data") /\ ~Present(node.markers, "real_data"))
                   => result = DefaultData

\* C3 as amended: the mock set when a mock_data marker is on the node or an
\* ancestor, the real set when a real_data marker is and no mock_data marker
\* is, the default set when neither is; one of the three in every case
C3_PresenceDecides ==
    DataSourceReturned =>
        /\ Present(node.markers, "mock_data") => result = MockData
        /\ (Present(node.markers, "real_data") /\ ~Present(node.markers, "mock_data"))
               => result = RealData
        /\ (~Present(node.markers, "mock_data") /\ ~Present(node.markers, "real_data"))
               => result = DefaultData
        /\ Cardinality({ v \in { MockData, RealData, DefaultData } : v = result }) = 1

C3_Witness ==
    /\ DataSourceReturned
    /\ Distance(node.markers, "mock_data") > 1
    /\ Present(node.markers, "mock_data")
    /\ ~Present(node.markers, "real_data")
    /\ result = MockData

\* C10: with both a mock_data and a real_data marker on the node or its
\* ancestors, in any order and at any distance, data_source returns the mock set
C10_MockPrecedence ==
    (DataSourceReturned /\ Present(node.markers, "mock_data")
                        /\ Present(node.markers, "real_data"))
        => result = MockData

C10_Witness ==
    /\ DataSourceReturned
    /\ Distance(node.markers, "real_data") < Distance(node.markers, "mock_data")
    /\ Present(node.markers, "mock_data")
    /\ result = MockData

SessionOver ==
    /\ pc = "idle"
    /\ queue = << >>

\* the number of times test_parameterized_fixture was selected
Sweeps ==
    Cardinality({ i \in 1..Len(collected) : collected[i] = "test_parameterized_fixture" })

\* a sweep is one invocation for each of the three values
SweepLen ==
    Cardinality(ExpectedScenarios)

\* the values the k-th sweep observed
SweepOf(k) ==
    SubSeq(observed, SweepLen * (k - 1) + 1, SweepLen * k)

\* C4: every invocation of test_parameterized_fixture observes one of the
\* three values, and a sweep is three invocations that observe each of the
\* three values once
C4_SweepCoversEachOnce ==
    /\ \A i \in 1..Len(observed) : observed[i] \in ExpectedScenarios
    /\ SessionOver =>
           /\ Len(observed) = SweepLen * Sweeps
           /\ \A k \in 1..Sweeps :
                  \A v \in ExpectedScenarios :
                      Cardinality({ j \in 1..SweepLen : SweepOf(k)[j] = v }) = 1

C4_Witness ==
    /\ SessionOver
    /\ Sweeps >= 1
    /\ Len(observed) = SweepLen * Sweeps

AdvancedReturned ==
    /\ cur.test = "test_getfixturevalue"
    /\ pc \in { "call", "teardown" }

\* C5: the dict advanced_fixture returns has every field of fixture_user's
\* return with the same value, beside is_admin = False and accessed_by =
\* "advanced_fixture"
C5_UserFieldsKept ==
    AdvancedReturned =>
        /\ locals["user"] = fixture_user_value
        /\ \A k \in DOMAIN fixture_user_value :
               /\ k \in DOMAIN result
               /\ result[k] = fixture_user_value[k]
        /\ result["username"] = "testuser"
        /\ result["id"] = 123
        /\ result["is_admin"] = FALSE
        /\ result["accessed_by"] = "advanced_fixture"
        /\ DOMAIN result = DOMAIN fixture_user_value \cup { "is_admin", "accessed_by" }

C5_Witness ==
    /\ AdvancedReturned
    /\ pc = "call"
    /\ result["id"] = 123

\* C6: the fixture name each fixture reports is its declared identifier, and
\* the scope of every request context is one of the four scopes
C6_NameAndScope ==
    /\ \A i \in 1..Len(reqstack) : reqstack[i].scope \in Scopes
    /\ (pc = "call" /\ cur.test = "test_request_methods") =>
           /\ result["fixture_name"] = "demonstrate_request_methods"
           /\ result["fixture_scope"] \in Scopes
    /\ (pc = "call" /\ cur.test = "test_parameterized_fixture") =>
           result["fixture_name"] = "scenario"
    /\ (pc = "call" /\ cur.test = "test_getfixturevalue") =>
           result["accessed_by"] = "advanced_fixture"

C6_Witness ==
    /\ pc = "call"
    /\ cur.test = "test_request_methods"
    /\ result["fixture_name"] = "demonstrate_request_methods"
    /\ result["fixture_scope"] = "function"

ResultKeys ==
    { "fixture_name", "fixture_scope", "test_func_name", "test_module_name",
      "test_node_name" }

LookupFailed ==
    locals["raised"] # None

\* C7: a failure of request.getfixturevalue('tmp_path') does not leave
\* demonstrate_request_methods: tmp_path_value is None, the statements after
\* the lookup run, and the fixture returns its dict of the same five keys as
\* when the lookup succeeds
C7_LookupFailureContained ==
    (cur.test = "test_request_methods" /\ pc \in { "drm_return", "call", "teardown" }) =>
        /\ failedAt # 86
        /\ LookupFailed => locals["tmp_path_value"] = None
        /\ ~LookupFailed => locals["tmp_path_value"] = TmpPath
        /\ pc # "drm_return" =>
               /\ "skip_marker" \in DOMAIN locals
               /\ DOMAIN result = ResultKeys

C7_Witness ==
    /\ cur.test = "test_request_methods"
    /\ pc = "call"
    /\ LookupFailed
    /\ locals["tmp_path_value"] = None
    /\ DOMAIN result = ResultKeys

BodyDone(i) ==
    /\ ManagedTest
    /\ pc = "teardown"
    /\ result["ref"] = i

Released(i) ==
    /\ Len(heap) >= i
    /\ heap[i]["status"] = "inactive"

\* C8: once the body of test_managed_resource is over, passed or failed, the
\* teardown runs and the resource's status becomes "inactive"; a later test
\* that requests managed_resource gets a new resource whose status is "active"
C8_Lifecycle ==
    /\ \A i \in 1..MaxSel : BodyDone(i) ~> Released(i)
    /\ [](( ManagedTest /\ pc = "call" ) =>
              /\ result["ref"] = Len(heap)
              /\ heap[result["ref"]]["status"] = "active"
              /\ \A j \in 1..(Len(heap) - 1) : heap[j]["status"] = "inactive")

C8_Witness ==
    /\ ManagedTest
    /\ pc = "call"
    /\ Len(heap) = 2
    /\ heap[1]["status"] = "inactive"
    /\ heap[2]["status"] = "active"

\* C9: the dict of demonstrate_request_methods names the requesting test and
\* its module name contains "test_": the five assertions of
\* test_request_methods hold
C9_AssertionsHold ==
    (cur.test = "test_request_methods" /\ pc = "teardown") =>
        /\ result["test_func_name"] = "test_request_methods"
        /\ result["test_node_name"] = << "test_request_methods" >>
        /\ Contains(TestPrefix, result["test_module_name"])
        /\ failedAt = 0

====
